---- MODULE Spec2Model ----
(***************************************************************************)
(* Model of the Azure AI Search tool pair                                  *)
(*   src/deep_researcher/tools/azure_search.py                             *)
(* and of the agent factory                                                *)
(*   src/deep_researcher/agents/tool_agents/azure_search_agent.py          *)
(*                                                                         *)
(* Python values are tagged records [t, s, n]: t is the type, s the text   *)
(* of a str as a sequence of code points, n the value of an int.  A key    *)
(* that a JSON row does not have is the value Absent.  The request payload *)
(* (and with it the query argument) is not modelled: no property below     *)
(* reads it.                                                               *)
(***************************************************************************)
EXTENDS Integers, Sequences, FiniteSets, TLC

\* ------------------------------------------------------------------ bounds

\* Concurrent tool invocations in Spec.
NumCalls == 2
\* Longest list of raw rows the service returns, per specification.
MaxRowsDiscover == 3
MaxRowsRetrieve == 2
MaxRowsOrder == 4
MaxRowsUrl == 2

\* ---------------------------------------------------------- Python values

None == [t |-> "none", s |-> <<>>, n |-> 0]
Absent == [t |-> "absent", s |-> <<>>, n |-> 0]
Str(s) == [t |-> "str", s |-> s, n |-> 0]
IntV(n) == [t |-> "int", s |-> <<>>, n |-> n]

\* bool(v): None, "" and 0 are false.
Truthy(v) ==
    CASE v.t = "str" -> v.s # <<>>
      [] v.t = "int" -> v.n # 0
      [] OTHER -> FALSE

\* dict.get(key, default) on a row: the default only when the key is missing.
Get(row, key, default) ==
    IF row[key].t = "absent" THEN default ELSE row[key]

\* str < str: lexicographic on code points.
RECURSIVE StrLess(_, _)
StrLess(a, b) ==
    IF b = <<>> THEN FALSE
    ELSE IF a = <<>> THEN TRUE
    ELSE IF a[1] # b[1] THEN a[1] < b[1]
    ELSE StrLess(Tail(a), Tail(b))

\* Decimal digits of a natural number.
RECURSIVE Digits(_)
Digits(n) ==
    IF n < 10 THEN <<48 + n>> ELSE Digits(n \div 10) \o <<48 + (n % 10)>>

\* str(v) for a str or an int.
PyStr(v) ==
    CASE v.t = "str" -> v.s
      [] v.t = "int" -> IF v.n < 0 THEN <<45>> \o Digits(-v.n) ELSE Digits(v.n)
      [] OTHER -> <<78, 111, 110, 101>>

IsSpace(c) == c \in {32, 9, 10, 11, 12, 13}

\* str.strip()
RECURSIVE LStrip(_)
LStrip(s) ==
    IF s # <<>> /\ IsSpace(s[1]) THEN LStrip(Tail(s)) ELSE s

RECURSIVE RStrip(_)
RStrip(s) ==
    IF s # <<>> /\ IsSpace(s[Len(s)]) THEN RStrip(SubSeq(s, 1, Len(s) - 1)) ELSE s

Strip(s) == RStrip(LStrip(s))

IsDigit(c) == c \in 48..57

\* The digits of int(s)'s argument once stripped and with its sign removed.
IntBody(s) ==
    LET t == Strip(s)
    IN IF t # <<>> /\ t[1] \in {43, 45} THEN Tail(t) ELSE t

\* Whether int(s) returns (it raises ValueError otherwise), for text made of
\* ASCII digits, signs, blanks and letters.
IntParses(s) ==
    /\ IntBody(s) # <<>>
    /\ \A i \in 1..Len(IntBody(s)) : IsDigit(IntBody(s)[i])

RECURSIVE DigitsValue(_)
DigitsValue(d) ==
    IF d = <<>> THEN 0
    ELSE 10 * DigitsValue(SubSeq(d, 1, Len(d) - 1)) + (d[Len(d)] - 48)

\* int(s), where it returns.
IntValue(s) ==
    LET t == Strip(s)
    IN IF t[1] = 45 THEN -DigitsValue(IntBody(s)) ELSE DigitsValue(IntBody(s))

\* ------------------------------------------------------- raw rows, responses

\* One element of the response's "value" list.  t is "object" for a JSON
\* object and "str" for a JSON string, which has no .get.
Row(fileName, webUrl, slideNumber, embeddingContext, embeddingContent) ==
    [t |-> "object", fileName |-> fileName, webUrl |-> webUrl,
     slideNumber |-> slideNumber, embeddingContext |-> embeddingContext,
     embeddingContent |-> embeddingContent]

NonObjectRow ==
    [t |-> "str", fileName |-> Absent, webUrl |-> Absent, slideNumber |-> Absent,
     embeddingContext |-> Absent, embeddingContent |-> Absent]

\* What requests.post and the response give.  kind: "ok" (a 2xx response with
\* a JSON body), "ConnectionError" (requests.post raises), "HTTPError"
\* (raise_for_status raises), "JSONDecodeError" (response.json raises).
\* bodyType: "object" or "array"; valueType: "array", "null" or "absent"
\* (the body has no "value" key).
Response(kind, bodyType, valueType, rows) ==
    [kind |-> kind, bodyType |-> bodyType, valueType |-> valueType, rows |-> rows]

NoResponse == Response("none", "object", "absent", <<>>)

Body(rows) == Response("ok", "object", "array", rows)

\* results.get("value", [])
ValueOf(resp) ==
    IF resp.valueType = "absent" THEN <<>> ELSE resp.rows

\* ------------------------------------------------------------- exceptions

Raise(exc) == [raised |-> TRUE, exc |-> exc, value |-> [t |-> "none"]]
Return(value) == [raised |-> FALSE, exc |-> "", value |-> value]

ConfigMessage ==
    "Azure AI Search configuration is incomplete. Please set AZURE_SEARCH_ENDPOINT, AZURE_SEARCH_KEY, and AZURE_SEARCH_INDEX_NAME environment variables."

\* str(e)
ErrorText(exc) ==
    IF exc = "ValueError" THEN ConfigMessage ELSE exc

\* Faulty variant of IsException: the handler catches requests' exceptions only
\* (except requests.RequestException).
IsRequestException(exc) ==
    exc \in {"ConnectionError", "HTTPError", "JSONDecodeError"}

\* isinstance(e, Exception): every class raised here derives from Exception.
IsException(exc) ==
    exc \in {"ValueError", "ConnectionError", "HTTPError", "JSONDecodeError",
             "AttributeError", "TypeError"}

\* What the code after requests.post raises before it reaches a row's
\* fields: raise_for_status, response.json, results.get on a body that is no
\* object, iterating a null "value", result.get on a row that is no object.
ResponseFailure(resp) ==
    IF resp.kind # "ok" THEN resp.kind
    ELSE IF resp.bodyType # "object" THEN "AttributeError"
    ELSE IF resp.valueType = "null" THEN "TypeError"
    ELSE IF \E k \in 1..Len(ValueOf(resp)) : ValueOf(resp)[k].t # "object"
         THEN "AttributeError"
    ELSE ""

\* ---------------------------------------------- discover_powerpoint_reports

HasName(files, file_name) ==
    \E k \in 1..Len(files) : files[k].name = file_name

\* Faulty variant of unique_files: the assignment is not guarded by "not in", so a
\* later row overwrites the URL of its file name.
RECURSIVE unique_files_last_wins(_)
unique_files_last_wins(rows) ==
    IF rows = <<>> THEN <<>>
    ELSE LET prev == unique_files_last_wins(SubSeq(rows, 1, Len(rows) - 1))
             result == rows[Len(rows)]
             file_name == Get(result, "fileName", None)
             web_url == Get(result, "webUrl", Str(<<>>))
         IN IF ~Truthy(file_name) THEN prev
            ELSE IF HasName(prev, file_name)
            THEN [k \in 1..Len(prev) |->
                     IF prev[k].name = file_name
                     THEN [name |-> file_name, url |-> web_url] ELSE prev[k]]
            ELSE Append(prev, [name |-> file_name, url |-> web_url])

\* The dict unique_files, as its items in insertion order.
RECURSIVE unique_files(_)
unique_files(rows) ==
    IF rows = <<>> THEN <<>>
    ELSE LET prev == unique_files(SubSeq(rows, 1, Len(rows) - 1))
             result == rows[Len(rows)]
             file_name == Get(result, "fileName", None)
             web_url == Get(result, "webUrl", Str(<<>>))
         IN IF Truthy(file_name) /\ ~HasName(prev, file_name)
            THEN Append(prev, [name |-> file_name, url |-> web_url])
            ELSE prev

\* (name, url) < (name, url), as sorted compares the items of the dict.
ItemLess(a, b) ==
    \/ StrLess(a.name.s, b.name.s)
    \/ a.name = b.name /\ StrLess(a.url.s, b.url.s)

\* sorted(): stable, comparing with < alone.
RECURSIVE InsertItem(_, _)
InsertItem(sorted, x) ==
    IF sorted = <<>> THEN <<x>>
    ELSE IF ItemLess(x, sorted[1]) THEN <<x>> \o sorted
    ELSE <<sorted[1]>> \o InsertItem(Tail(sorted), x)

RECURSIVE SortedItems(_)
SortedItems(items) ==
    IF items = <<>> THEN <<>>
    ELSE InsertItem(SortedItems(SubSeq(items, 1, Len(items) - 1)), items[Len(items)])

formatted_results(rows) ==
    LET items == SortedItems(unique_files(rows))
    IN [k \in 1..Len(items) |->
           [file_name |-> items[k].name, web_url |-> items[k].url]]

\* The try block from requests.post on.
discover_try(resp) ==
    IF ResponseFailure(resp) # "" THEN Raise(ResponseFailure(resp))
    ELSE Return([t |-> "list", items |-> formatted_results(ValueOf(resp))])

\* except Exception as e: return [{"error": str(e)}]
discover_except(outcome) ==
    IF ~outcome.raised THEN outcome.value
    ELSE IF IsException(outcome.exc)
         THEN [t |-> "list", items |-> <<[error |-> ErrorText(outcome.exc)]>>]
    ELSE [t |-> "raised", exc |-> outcome.exc]

\* ----------------------------------------------- retrieve_powerpoint_report

Unknown == <<85, 110, 107, 110, 111, 119, 110>>

slide_num(result) ==
    LET slide_num_raw == Get(result, "slideNumber", None)
    IN IF slide_num_raw.t # "none" /\ Strip(PyStr(slide_num_raw)) # <<>>
       THEN PyStr(slide_num_raw)
       ELSE Unknown

\* result.get("embeddingContext", result.get("embeddingContent", ""))
content_of(result) ==
    Get(result, "embeddingContext", Get(result, "embeddingContent", Str(<<>>)))

HasSlide(slides, sn) ==
    \E k \in 1..Len(slides) : slides[k].slide_number = sn

\* The dict unique_slides, as its values in insertion order.
RECURSIVE unique_slides(_)
unique_slides(rows) ==
    IF rows = <<>> THEN <<>>
    ELSE LET prev == unique_slides(SubSeq(rows, 1, Len(rows) - 1))
             result == rows[Len(rows)]
         IN IF ~HasSlide(prev, slide_num(result)) /\ Truthy(content_of(result))
            THEN Append(prev, [slide_number |-> slide_num(result),
                               content |-> content_of(result)])
            ELSE prev

\* Faulty variant of sort_key: the slide number is not converted with int().
sort_key_as_string(slide) == <<1, slide.slide_number>>

sort_key(slide) ==
    LET sn == slide.slide_number
    IN IF IntParses(sn) THEN <<0, IntValue(sn)>> ELSE <<1, sn>>

\* tuple < tuple on two sort keys.
KeyLess(a, b) ==
    \/ a[1] < b[1]
    \/ a[1] = b[1] /\ a[1] = 0 /\ a[2] < b[2]
    \/ a[1] = b[1] /\ a[1] = 1 /\ StrLess(a[2], b[2])

RECURSIVE InsertSlide(_, _)
InsertSlide(sorted, x) ==
    IF sorted = <<>> THEN <<x>>
    ELSE IF KeyLess(sort_key(x), sort_key(sorted[1])) THEN <<x>> \o sorted
    ELSE <<sorted[1]>> \o InsertSlide(Tail(sorted), x)

\* Faulty variant of SortedSlides: the slides are returned in insertion order.
UnsortedSlides(slides) == slides

\* sorted(unique_slides.values(), key=sort_key)
RECURSIVE SortedSlides(_)
SortedSlides(slides) ==
    IF slides = <<>> THEN <<>>
    ELSE InsertSlide(SortedSlides(SubSeq(slides, 1, Len(slides) - 1)),
                     slides[Len(slides)])

\* Faulty variant of first_web_url: the URL of the first row that gave a slide.
RECURSIVE first_kept_web_url(_)
first_kept_web_url(rows) ==
    IF rows = <<>> THEN Str(<<>>)
    ELSE IF Truthy(content_of(rows[1])) THEN Get(rows[1], "webUrl", Str(<<>>))
    ELSE first_kept_web_url(Tail(rows))

\* next((r.get("webUrl", "") for r in results.get("value", [])), "")
first_web_url(rows) ==
    IF rows = <<>> THEN Str(<<>>) ELSE Get(rows[1], "webUrl", Str(<<>>))

retrieve_try(file_name, resp) ==
    IF ResponseFailure(resp) # "" THEN Raise(ResponseFailure(resp))
    ELSE Return([t |-> "dict", file_name |-> file_name,
                 web_url |-> first_web_url(ValueOf(resp)),
                 slides |-> SortedSlides(unique_slides(ValueOf(resp)))])

\* except Exception as e: return {"error": str(e)}
retrieve_except(outcome) ==
    IF ~outcome.raised THEN outcome.value
    ELSE IF IsException(outcome.exc)
         THEN [t |-> "dict", error |-> ErrorText(outcome.exc)]
    ELSE [t |-> "raised", exc |-> outcome.exc]

\* ------------------------------------------------------------ agent factory

\* The two function tools, in the order create_azure_search_tools returns them.
create_azure_search_tools ==
    <<"discover_powerpoint_reports", "retrieve_powerpoint_report">>

\* The models a configuration may select as its fast model.
Models == {"native", "text"}

\* llm_config.model_supports_structured_output: a capability check on the
\* selected model.
model_supports_structured_output(model) == model = "native"

NoAgent ==
    [name |-> "", tools |-> <<>>, model |-> "", output_type |-> "None",
     output_parser |-> "None"]

\* Faulty variant of ResearchAgent: the parser is set whatever the model supports.
ResearchAgentBothOutputs(selected_model) ==
    [name |-> "AzureSearchAgent",
     tools |-> create_azure_search_tools,
     model |-> selected_model,
     output_type |-> IF model_supports_structured_output(selected_model)
                     THEN "ToolAgentOutput" ELSE "None",
     output_parser |-> "create_type_parser(ToolAgentOutput)"]

ResearchAgent(selected_model) ==
    [name |-> "AzureSearchAgent",
     tools |-> create_azure_search_tools,
     model |-> selected_model,
     output_type |-> IF model_supports_structured_output(selected_model)
                     THEN "ToolAgentOutput" ELSE "None",
     output_parser |-> IF ~model_supports_structured_output(selected_model)
                       THEN "create_type_parser(ToolAgentOutput)" ELSE "None"]

\* ------------------------------------------------------------------- state

VARIABLES
    Config,     \* the class attributes ENDPOINT, API_KEY, INDEX_NAME
    agent,      \* the descriptor init_azure_search_agent returned, or NoAgent
    pc,         \* pc[i]: where invocation i is
    args,       \* args[i]: the tool and the file_name the caller passed
    wire,       \* wire[i]: what the service answered to invocation i's request
    frame,      \* frame[f]: the local variables file_name and response of a call
    result,     \* result[i]: what invocation i returned
    httpCalls   \* httpCalls[i]: the requests invocation i has posted

vars == <<Config, agent, pc, args, wire, frame, result, httpCalls>>

Calls == 1..NumCalls

\* Faulty variant of Frame: the local variables are module-level, one frame for all.
SharedFrame(i) == 1

\* The frame that holds invocation i's local variables: its own.
Frame(i) == i

\* An environment variable that is unset, set to "", or set.
ConfigValues == {None, Str(<<>>), Str(<<120>>)}

\* Faulty variant of ConfigComplete: the index name is not checked.
ConfigCompleteWithoutIndex ==
    Truthy(Config.ENDPOINT) /\ Truthy(Config.API_KEY)

\* all([Config.ENDPOINT, Config.API_KEY, Config.INDEX_NAME])
ConfigComplete ==
    Truthy(Config.ENDPOINT) /\ Truthy(Config.API_KEY) /\ Truthy(Config.INDEX_NAME)

\* discover_powerpoint_reports has no file_name parameter.
NoFileName == <<>>

NoArgs == [op |-> "none", file_name |-> <<>>]
NoFrame == [file_name |-> <<>>, response |-> NoResponse]
NoResult == [t |-> "none"]

Init ==
    /\ Config \in [ENDPOINT : ConfigValues, API_KEY : ConfigValues,
                   INDEX_NAME : ConfigValues]
    /\ agent = NoAgent
    /\ pc = [i \in Calls |-> "idle"]
    /\ args = [i \in Calls |-> NoArgs]
    /\ wire = [i \in Calls |-> NoResponse]
    /\ frame = [f \in Calls |-> NoFrame]
    /\ result = [i \in Calls |-> NoResult]
    /\ httpCalls = [i \in Calls |-> 0]

\* except clause of the tool op.
Except(op, outcome) ==
    IF op = "discover_powerpoint_reports"
    THEN discover_except(outcome)
    ELSE retrieve_except(outcome)

\* The try block of the tool op from requests.post on.
Try(op, locals) ==
    IF op = "discover_powerpoint_reports"
    THEN discover_try(locals.response)
    ELSE retrieve_try(locals.file_name, locals.response)

\* init_azure_search_agent(config), config.fast_model being selected_model.
init_azure_search_agent(selected_model) ==
    /\ agent = NoAgent
    /\ agent' = ResearchAgent(selected_model)
    /\ UNCHANGED <<Config, pc, args, wire, frame, result, httpCalls>>

\* The runtime calls tool op (file_name is NoFileName for discover): the
\* configuration check and, when it passes, requests.post sends the request.
Invoke(i, op, file_name) ==
    /\ pc[i] = "idle"
    /\ \E k \in 1..Len(agent.tools) : agent.tools[k] = op
    /\ args' = [args EXCEPT ![i] = [op |-> op, file_name |-> file_name]]
    /\ frame' = [frame EXCEPT ![Frame(i)].file_name = file_name]
    /\ IF ConfigComplete
       THEN /\ httpCalls' = [httpCalls EXCEPT ![i] = @ + 1]
            /\ pc' = [pc EXCEPT ![i] = "awaiting"]
            /\ UNCHANGED result
       ELSE /\ result' = [result EXCEPT ![i] = Except(op, Raise("ValueError"))]
            /\ pc' = [pc EXCEPT ![i] = "done"]
            /\ UNCHANGED httpCalls
    /\ UNCHANGED <<Config, agent, wire>>

\* requests.post returns the response resp, or raises.
Receive(i, resp) ==
    /\ pc[i] = "awaiting"
    /\ wire' = [wire EXCEPT ![i] = resp]
    /\ frame' = [frame EXCEPT ![Frame(i)].response = resp]
    /\ pc' = [pc EXCEPT ![i] = "received"]
    /\ UNCHANGED <<Config, agent, args, result, httpCalls>>

\* The rest of the try block and the except clause, to the return.
Process(i) ==
    /\ pc[i] = "received"
    /\ result' = [result EXCEPT ![i] = Except(args[i].op, Try(args[i].op, frame[Frame(i)]))]
    /\ pc' = [pc EXCEPT ![i] = "done"]
    /\ UNCHANGED <<Config, agent, args, wire, frame, httpCalls>>

\* ------------------------------------------------------------------ inputs

SeqsUpTo(S, n) == UNION {[1..k -> S] : k \in 0..n}

FileA == <<65>>
FileB == <<66>>
FileAB == <<65, 66>>
Url1 == <<117, 49>>
Url2 == <<117, 50>>
TextC == <<99>>
TextD == <<100>>

FileNames == {FileA, FileB}

\* Spec: every kind of failure and a few bodies.
SmallResponses ==
    {Response("ConnectionError", "object", "absent", <<>>),
     Response("HTTPError", "object", "absent", <<>>),
     Response("JSONDecodeError", "object", "absent", <<>>),
     Response("ok", "array", "absent", <<>>),
     Response("ok", "object", "null", <<>>),
     Response("ok", "object", "absent", <<>>),
     Body(<<NonObjectRow>>),
     Body(<<Row(Str(FileB), Str(Url1), IntV(5), Str(<<>>), Str(TextD)),
            Row(Str(FileA), Str(Url2), IntV(5), Str(TextC), Absent)>>)}

\* SpecDiscover: rows with and without a file name and a URL.
DiscoverRows ==
    {Row(fn, url, Absent, Absent, Absent) :
        fn \in {Absent, Str(<<>>), Str(FileA), Str(FileAB), Str(FileB)},
        url \in {Str(Url1), Str(Url2)}}
    \cup {Row(Str(FileA), Absent, Absent, Absent, Absent)}

DiscoverResponses == {Body(rows) : rows \in SeqsUpTo(DiscoverRows, MaxRowsDiscover)}

\* SpecRetrieve: rows with every combination of the two content fields.
RetrieveRows ==
    {Row(Str(FileA), Str(Url1), sn, ctx, cont) :
        sn \in {Absent, IntV(5), Str(<<53>>)},
        ctx \in {Absent, Str(<<>>), Str(TextC)},
        cont \in {Absent, Str(<<>>), Str(TextD)}}

RetrieveResponses == {Body(rows) : rows \in SeqsUpTo(RetrieveRows, MaxRowsRetrieve)}

\* SpecOrder: rows that differ in their slide number: absent, "1", "01", "2",
\* "3", "10", "x".
OrderRows ==
    {Row(Str(FileA), Str(Url1), sn, Str(TextC), Absent) :
        sn \in {Absent, Str(<<49>>), Str(<<48, 49>>), Str(<<50>>), Str(<<51>>),
                Str(<<49, 48>>), Str(<<120>>)}}

OrderResponses == {Body(rows) : rows \in SeqsUpTo(OrderRows, MaxRowsOrder)}

\* SpecUrl: rows that differ in their URL, kept (content) or dropped (none).
UrlRows ==
    {Row(Str(FileA), url, sn, ctx, Absent) :
        url \in {Absent, Str(Url1), Str(Url2)},
        sn \in {Absent, IntV(5)},
        ctx \in {Str(<<>>), Str(TextC)}}

UrlResponses == {Body(rows) : rows \in SeqsUpTo(UrlRows, MaxRowsUrl)}

\* ---------------------------------------------------------- specifications

CreateAgent == \E m \in Models : init_azure_search_agent(m)

\* Concurrent invocations of both tools, every failure.
Next ==
    \/ CreateAgent
    \/ \E i \in Calls : Invoke(i, "discover_powerpoint_reports", NoFileName)
    \/ \E i \in Calls, fn \in FileNames : Invoke(i, "retrieve_powerpoint_report", fn)
    \/ \E i \in Calls, resp \in SmallResponses : Receive(i, resp)
    \/ \E i \in Calls : Process(i)

Spec == Init /\ [][Next]_vars

\* One discovery over every list of rows.
NextDiscover ==
    \/ init_azure_search_agent("native")
    \/ Invoke(1, "discover_powerpoint_reports", NoFileName)
    \/ \E resp \in DiscoverResponses : Receive(1, resp)
    \/ Process(1)

SpecDiscover == Init /\ [][NextDiscover]_vars

\* One retrieval over every list of rows.
NextRetrieve ==
    \/ init_azure_search_agent("native")
    \/ \E fn \in FileNames : Invoke(1, "retrieve_powerpoint_report", fn)
    \/ \E resp \in RetrieveResponses : Receive(1, resp)
    \/ Process(1)

SpecRetrieve == Init /\ [][NextRetrieve]_vars

\* One retrieval over rows that differ in their slide number.
NextOrder ==
    \/ init_azure_search_agent("text")
    \/ Invoke(1, "retrieve_powerpoint_report", FileA)
    \/ \E resp \in OrderResponses : Receive(1, resp)
    \/ Process(1)

SpecOrder == Init /\ [][NextOrder]_vars

\* One retrieval over rows that differ in their URL.
NextUrl ==
    \/ init_azure_search_agent("text")
    \/ \E fn \in FileNames : Invoke(1, "retrieve_powerpoint_report", fn)
    \/ \E resp \in UrlResponses : Receive(1, resp)
    \/ Process(1)

SpecUrl == Init /\ [][NextUrl]_vars

\* ------------------------------------------------------ what the claims use

Done(i) == pc[i] = "done"

\* [{"error": <message>}]
IsErrorList(r) ==
    /\ r.t = "list"
    /\ Len(r.items) = 1
    /\ DOMAIN r.items[1] = {"error"}

\* {"error": <message>}
IsErrorDict(r) ==
    /\ r.t = "dict"
    /\ DOMAIN r = {"t", "error"}

\* The error payload of the tool invocation i ran.
IsErrorPayload(i) ==
    IF args[i].op = "discover_powerpoint_reports"
    THEN IsErrorList(result[i])
    ELSE IsErrorDict(result[i])

\* Invocation i returned a discovery list or a report, not an error.
Succeeded(i) ==
    /\ Done(i)
    /\ result[i].t \in {"list", "dict"}
    /\ ~IsErrorPayload(i)

\* The rows the service returned to invocation i.
RowsOf(i) == ValueOf(wire[i])

Perms(seq) ==
    {[k \in 1..Len(seq) |-> seq[f[k]]] : f \in Permutations(1..Len(seq))}

NonEmptyStr(v) == v.t = "str" /\ v.s # <<>>

SlideNumbers(slides) == [k \in 1..Len(slides) |-> slides[k].slide_number]

FileNamesOf(items) == [k \in 1..Len(items) |-> items[k].file_name]

\* ---------------------------------------------------------------------- C1

\* A failure the claim lists: missing configuration, a transport error, a
\* non-2xx status, a body that is not JSON, not an object, or whose rows are
\* null or not objects.
FailureInside(i) ==
    \/ \E k \in {"ENDPOINT", "API_KEY", "INDEX_NAME"} : ~NonEmptyStr(Config[k])
    \/ wire[i].kind \in {"ConnectionError", "HTTPError", "JSONDecodeError"}
    \/ wire[i].kind = "ok" /\ wire[i].bodyType # "object"
    \/ wire[i].kind = "ok" /\ wire[i].valueType = "null"
    \/ wire[i].kind = "ok" /\ wire[i].valueType = "array"
         /\ \E k \in 1..Len(wire[i].rows) : wire[i].rows[k].t # "object"

\* C1: no exception escapes an invocation of either tool; an invocation in
\* which a failure occurred returns the error payload of its tool, a
\* one-element list [{"error": m}] for discover and the object {"error": m}
\* for retrieve.
C1_NoExceptionEscapes ==
    \A i \in Calls :
        /\ result[i].t # "raised"
        /\ Done(i) => result[i] # NoResult
        /\ (Done(i) /\ FailureInside(i)) => IsErrorPayload(i)

\* Both tools have returned their error payload, discover for a body that is
\* no object and retrieve for a row that is no object.
C1_Witness ==
    \E i, j \in Calls :
        /\ Done(i) /\ args[i].op = "discover_powerpoint_reports"
        /\ wire[i] = Response("ok", "array", "absent", <<>>)
        /\ IsErrorList(result[i])
        /\ Done(j) /\ args[j].op = "retrieve_powerpoint_report"
        /\ wire[j] = Body(<<NonObjectRow>>)
        /\ IsErrorDict(result[j])

\* ---------------------------------------------------------------------- C2

AnyUnset ==
    \E k \in {"ENDPOINT", "API_KEY", "INDEX_NAME"} : Config[k] = None

\* C2: with one of the three settings unset, an invocation of either tool
\* posts no HTTP request, from its start to its end, and returns the error
\* payload that names the three settings.
C2_MissingConfigNoRequest ==
    AnyUnset =>
        \A i \in Calls :
            /\ httpCalls[i] = 0
            /\ pc[i] \in {"idle", "done"}
            /\ Done(i) =>
                 /\ IsErrorPayload(i)
                 /\ IF args[i].op = "discover_powerpoint_reports"
                    THEN result[i].items[1].error = ConfigMessage
                    ELSE result[i].error = ConfigMessage

\* Exactly the index name is unset and both tools have been called.
C2_Witness ==
    /\ Config.INDEX_NAME = None
    /\ NonEmptyStr(Config.ENDPOINT) /\ NonEmptyStr(Config.API_KEY)
    /\ \E i, j \in Calls :
        /\ Done(i) /\ args[i].op = "discover_powerpoint_reports"
        /\ Done(j) /\ args[j].op = "retrieve_powerpoint_report"

\* ---------------------------------------------------------------------- C3

\* The first row, in input order, whose fileName is name.
FirstRowNamed(rows, name) ==
    rows[CHOOSE k \in 1..Len(rows) :
            /\ rows[k].fileName = name
            /\ \A j \in 1..(k - 1) : rows[j].fileName # name]

\* C3: a successful discovery returns one entry per distinct non-empty
\* fileName, with the webUrl of the first row that has that fileName ("" when
\* that row has none), sorted strictly ascending by file_name; the file names
\* are the same for every permutation of the rows.
C3_DiscoverDedupSorted ==
    Succeeded(1) =>
        LET rows == RowsOf(1)
            items == result[1].items
        IN /\ {items[k].file_name : k \in 1..Len(items)}
                = {rows[k].fileName : k \in {j \in 1..Len(rows) : NonEmptyStr(rows[j].fileName)}}
           /\ \A j, k \in 1..Len(items) :
                j < k => StrLess(items[j].file_name.s, items[k].file_name.s)
           /\ \A k \in 1..Len(items) :
                LET first == FirstRowNamed(rows, items[k].file_name)
                IN items[k].web_url
                     = IF first.webUrl = Absent THEN Str(<<>>) ELSE first.webUrl
           /\ \A p \in Perms(rows) :
                FileNamesOf(formatted_results(p)) = FileNamesOf(items)

\* A discovery has returned two entries for three rows that repeat a file
\* name with another URL and come out of order.
C3_Witness ==
    /\ Succeeded(1)
    /\ args[1].op = "discover_powerpoint_reports"
    /\ \E j, k \in 1..Len(RowsOf(1)) :
        /\ j < k
        /\ NonEmptyStr(RowsOf(1)[j].fileName)
        /\ RowsOf(1)[j].fileName = RowsOf(1)[k].fileName
        /\ RowsOf(1)[j].webUrl # RowsOf(1)[k].webUrl
    /\ \E j, k \in 1..Len(RowsOf(1)) :
        /\ j < k
        /\ NonEmptyStr(RowsOf(1)[k].fileName)
        /\ StrLess(RowsOf(1)[k].fileName.s, RowsOf(1)[j].fileName.s)
    /\ Len(result[1].items) = 2

\* ---------------------------------------------------------------------- C4

\* The normalized slide number of rows[k] has not been recorded by an earlier
\* row, whichever way content is resolved: no earlier row has that slide
\* number and a non-empty context or content field.
FirstOfItsSlide(rows, k) ==
    \A j \in 1..(k - 1) :
        slide_num(rows[j]) = slide_num(rows[k]) =>
            /\ ~Truthy(Get(rows[j], "embeddingContext", None))
            /\ ~Truthy(Get(rows[j], "embeddingContent", None))

\* C4: content is the first non-empty of embeddingContext and
\* embeddingContent: a row whose embeddingContext is present but empty and
\* whose embeddingContent is non-empty is recorded with its embeddingContent.
C4_FallbackToContent ==
    Succeeded(1) =>
        \A k \in 1..Len(RowsOf(1)) :
            LET row == RowsOf(1)[k]
            IN (/\ row.embeddingContext = Str(<<>>)
                /\ NonEmptyStr(row.embeddingContent)
                /\ FirstOfItsSlide(RowsOf(1), k))
               => \E n \in 1..Len(result[1].slides) :
                    /\ result[1].slides[n].slide_number = slide_num(row)
                    /\ result[1].slides[n].content = row.embeddingContent

\* ---------------------------------------------------------------------- C5

\* The content the specification resolves for a row: embeddingContext, or
\* embeddingContent when that is absent or empty; "" when both are.
ResolvedContent(row) ==
    IF Truthy(Get(row, "embeddingContext", None)) THEN row.embeddingContext
    ELSE IF Truthy(Get(row, "embeddingContent", None)) THEN row.embeddingContent
    ELSE Str(<<>>)

\* The normalized slide number the claim states: "Unknown" for an absent or
\* blank slideNumber, the string form otherwise.
NormalizedSlideNumber(row) ==
    IF row.slideNumber.t \in {"absent", "none"} THEN Unknown
    ELSE IF \A c \in 1..Len(PyStr(row.slideNumber)) : IsSpace(PyStr(row.slideNumber)[c])
         THEN Unknown
    ELSE PyStr(row.slideNumber)

\* C5: the slide list has at most one entry per normalized slide number, no
\* entry with empty content, and the entry of a slide number is the first
\* row in input order with that slide number whose resolved content is
\* non-empty.
C5_FirstContentfulRowKept ==
    Succeeded(1) =>
        LET rows == RowsOf(1)
            slides == result[1].slides
            contentful(sn) ==
                {k \in 1..Len(rows) :
                    /\ NormalizedSlideNumber(rows[k]) = sn
                    /\ Truthy(ResolvedContent(rows[k]))}
        IN /\ \A m, n \in 1..Len(slides) :
                slides[m].slide_number = slides[n].slide_number => m = n
           /\ \A n \in 1..Len(slides) : Truthy(slides[n].content)
           /\ {slides[n].slide_number : n \in 1..Len(slides)}
                = {NormalizedSlideNumber(rows[k]) :
                      k \in {j \in 1..Len(rows) : Truthy(ResolvedContent(rows[j]))}}
           /\ \A n \in 1..Len(slides) :
                \A k \in contentful(slides[n].slide_number) :
                    (\A j \in contentful(slides[n].slide_number) : k <= j)
                        => slides[n].content = ResolvedContent(rows[k])

\* What of C5 the code does keep: one entry per slide number, none with empty
\* content, a row without content not standing in a later row's way.
C5_DedupNoEmptyContent ==
    Succeeded(1) =>
        LET rows == RowsOf(1)
            slides == result[1].slides
        IN /\ \A m, n \in 1..Len(slides) :
                slides[m].slide_number = slides[n].slide_number => m = n
           /\ \A n \in 1..Len(slides) : Truthy(slides[n].content)
           /\ \A k \in 1..Len(rows) :
                Truthy(content_of(rows[k])) =>
                    \E n \in 1..Len(slides) :
                        slides[n].slide_number = NormalizedSlideNumber(rows[k])

\* ---------------------------------------------------------------------- C6

\* Slide numbers "3", "1", absent, "2", in this order.
ExampleSlideNumbers == <<Str(<<51>>), Str(<<49>>), Absent, Str(<<50>>)>>

\* C6: in the slide list every slide number that parses as an integer
\* precedes every one that does not, the parsable ones ascend by value, the
\* others ascend as strings; slide numbers "3", "1", absent, "2" come out as
\* "1", "2", "3", "Unknown".
C6_SlideOrder ==
    Succeeded(1) =>
        LET sns == SlideNumbers(result[1].slides)
            rows == RowsOf(1)
        IN /\ \A j, k \in 1..Len(sns) :
                j < k =>
                    /\ IntParses(sns[k]) => IntParses(sns[j])
                    /\ (IntParses(sns[j]) /\ IntParses(sns[k]))
                          => IntValue(sns[j]) <= IntValue(sns[k])
                    /\ (~IntParses(sns[j]) /\ ~IntParses(sns[k]))
                          => (sns[j] = sns[k] \/ StrLess(sns[j], sns[k]))
           /\ [k \in 1..Len(rows) |-> rows[k].slideNumber] = ExampleSlideNumbers
                => sns = <<<<49>>, <<50>>, <<51>>, Unknown>>

\* The retrieval of the example has returned its four slides.
C6_Witness ==
    /\ Succeeded(1)
    /\ [k \in 1..Len(RowsOf(1)) |-> RowsOf(1)[k].slideNumber] = ExampleSlideNumbers
    /\ Len(result[1].slides) = 4

\* ---------------------------------------------------------------------- C9

SortKeys(slides) == [k \in 1..Len(slides) |-> sort_key(slides[k])]

\* The slide list retrieve returns for the rows.
SlidesFor(rows) == SortedSlides(unique_slides(rows))

\* No two slide numbers of the list parse to the same integer.
NoIntegerTies(slides) ==
    \A j, k \in 1..Len(slides) :
        (j # k /\ IntParses(slides[j].slide_number) /\ IntParses(slides[k].slide_number))
            => IntValue(slides[j].slide_number) # IntValue(slides[k].slide_number)

\* The first row with slide number sn and content.
FirstRowOfSlide(rows, sn) ==
    CHOOSE k \in 1..Len(rows) :
        /\ slide_num(rows[k]) = sn /\ Truthy(content_of(rows[k]))
        /\ \A j \in 1..(k - 1) : ~(slide_num(rows[j]) = sn /\ Truthy(content_of(rows[j])))

\* C9 as stated: the sequence of slide numbers is the same for every
\* permutation of the rows.
C9_SamePermutedSlideNumbers ==
    Succeeded(1) =>
        \A p \in Perms(RowsOf(1)) :
            SlideNumbers(SlidesFor(p)) = SlideNumbers(result[1].slides)

\* C9 as amended: for every permutation of the rows the sequence of sort keys
\* is the same, and so is the sequence of slide numbers when no two of them
\* parse to the same integer; slide numbers with the same sort key come in
\* the order of their first rows with content.
C9_SamePermutedSortKeys ==
    Succeeded(1) =>
        LET rows == RowsOf(1)
            slides == result[1].slides
            keys == SortKeys(slides)
            numbers == SlideNumbers(slides)
            untied == NoIntegerTies(slides)
        IN /\ \A p \in Perms(rows) :
                LET permuted == SlidesFor(p)
                IN /\ SortKeys(permuted) = keys
                   /\ untied => SlideNumbers(permuted) = numbers
           /\ \A j, k \in 1..Len(slides) :
                (j < k /\ sort_key(slides[j]) = sort_key(slides[k]))
                    => FirstRowOfSlide(rows, slides[j].slide_number)
                         < FirstRowOfSlide(rows, slides[k].slide_number)

\* A retrieval has returned "01" before "1", which tie, and both before a
\* slide number that came first in the rows.
C9_Witness ==
    /\ Succeeded(1)
    /\ Len(RowsOf(1)) = 3
    /\ RowsOf(1)[1].slideNumber = Str(<<50>>)
    /\ SlideNumbers(result[1].slides) = <<<<48, 49>>, <<49>>, <<50>>>>

\* --------------------------------------------------------------------- C10

\* C10: a successful retrieval returns the file_name it was given and the
\* webUrl of the first raw row, kept or not; "" when there are no rows or the
\* first row has no webUrl.
C10_FirstRowUrl ==
    (Succeeded(1) /\ args[1].op = "retrieve_powerpoint_report") =>
        /\ result[1].file_name = args[1].file_name
        /\ result[1].web_url
             = IF RowsOf(1) = <<>> THEN Str(<<>>)
               ELSE IF RowsOf(1)[1].webUrl = Absent THEN Str(<<>>)
               ELSE RowsOf(1)[1].webUrl

\* The first row was dropped for its empty content and its URL is returned,
\* not the URL of the row that gave the one slide.
C10_Witness ==
    /\ Succeeded(1)
    /\ args[1].file_name = FileB
    /\ Len(RowsOf(1)) = 2
    /\ ~Truthy(content_of(RowsOf(1)[1]))
    /\ RowsOf(1)[1].webUrl = Str(Url1)
    /\ RowsOf(1)[2].webUrl = Str(Url2)
    /\ Len(result[1].slides) = 1
    /\ result[1].web_url = Str(Url1)

\* ---------------------------------------------------------------------- C7

\* What the tool returns when run alone with these arguments and this
\* response.
Alone(a, resp) ==
    IF \E k \in {"ENDPOINT", "API_KEY", "INDEX_NAME"} : ~Truthy(Config[k])
    THEN Except(a.op, Raise("ValueError"))
    ELSE Except(a.op, Try(a.op, [file_name |-> a.file_name, response |-> resp]))

Isolated ==
    \A i \in Calls : Done(i) => result[i] = Alone(args[i], wire[i])

\* C7: in every interleaving of the invocations the configuration is never
\* modified and every invocation returns what it returns when run alone with
\* its arguments and its response.
C7_NoSharedState ==
    /\ []Isolated
    /\ [][Config' = Config]_vars

\* One retrieval has returned its report while another, for another file,
\* holds a different response it has not processed yet.
C7_Witness ==
    \E i, j \in Calls :
        /\ Done(i) /\ args[i].op = "retrieve_powerpoint_report"
        /\ Succeeded(i) /\ Len(result[i].slides) = 1
        /\ pc[j] = "received" /\ args[j].op = "retrieve_powerpoint_report"
        /\ args[j].file_name # args[i].file_name
        /\ wire[j] # wire[i]

\* ---------------------------------------------------------------------- C8

\* C8: the descriptor has exactly one of output_type and output_parser: the
\* schema when the model supports structured output, the parser when not;
\* and it binds the two tools discover and retrieve.
C8_OneOutputMechanism ==
    agent # NoAgent =>
        /\ (agent.output_type # "None") # (agent.output_parser # "None")
        /\ model_supports_structured_output(agent.model)
             => /\ agent.output_type = "ToolAgentOutput"
                /\ agent.output_parser = "None"
        /\ ~model_supports_structured_output(agent.model)
             => /\ agent.output_type = "None"
                /\ agent.output_parser = "create_type_parser(ToolAgentOutput)"
        /\ agent.tools = <<"discover_powerpoint_reports", "retrieve_powerpoint_report">>

\* The descriptor for a model without structured output, with a tool called.
C8_Witness ==
    /\ agent.name = "AzureSearchAgent"
    /\ agent.model = "text"
    /\ agent.output_parser # "None"
    /\ \E i \in Calls : Done(i)

====
